---- MODULE Spec2Model ----
(***************************************************************************)
(* Model of weather.py: the Hong Kong Observatory weather tool.            *)
(*                                                                         *)
(* Python values are modelled as follows: a JSON object is a record (a     *)
(* function from its keys), a JSON array is a sequence, a JSON number is   *)
(* an integer and a JSON string is a string.  The warnsum document, whose  *)
(* key order matters (dict iteration order), is the record holding the     *)
(* sequence of its (code, info) items.  A call's outcome is Ret(v) or      *)
(* Raise(e), where v is Str(s), Doc(d) or PyNone.                          *)
(***************************************************************************)
EXTENDS Integers, Sequences, FiniteSets, TLC

----------------------------------------------------------------------------
(* Bounds of the input documents and of the run *)

MaxDetails == 2
MaxDays == 2
MaxTips == 2
MaxWarnings == 2
MaxCalls == 2

----------------------------------------------------------------------------
(* Python values and outcomes *)

PyNone == [t |-> "None"]
Str(s) == [t |-> "str", s |-> s]
Ret(v) == [k |-> "return", v |-> v]
Raise(e) == [k |-> "raise", e |-> e]

Doc(d) == [t |-> "json", v |-> d]
NoOutcome == [k |-> "none"]

IsRet(o) == o.k = "return"
IsStr(v) == v.t = "str"

\* the empty JSON object {}
EmptyObj == [key \in {} |-> 0]

\* sep.join(strs)
RECURSIVE Join(_, _)
Join(sep, strs) ==
  IF Len(strs) = 0 THEN ""
  ELSE IF Len(strs) = 1 THEN strs[1]
  ELSE strs[1] \o sep \o Join(sep, Tail(strs))

SeqsUpTo(S, n) == UNION {[1..len -> S] : len \in 0..n}

----------------------------------------------------------------------------
(* format_warnings *)

warning_code_dict ==
  [WFIRE |-> "Fire Danger Warning",
   WFROST |-> "Frost Warning",
   WHOT |-> "Hot Weather Warning",
   WCOLD |-> "Cold Weather Warning",
   WMSGNL |-> "Strong Monsoon Signal",
   WTCPRE8 |-> "Pre-no.8 Special Announcement",
   WRAIN |-> "Rainstorm Warning Signal",
   WFNTSA |-> "Special Announcement on Flooding in the northern New Territories",
   WL |-> "Landslip Warning",
   WTCSGNL |-> "Tropical Cyclone Warning Signal",
   WTMW |-> "Tsunami Warning",
   WTS |-> "Thunderstorm Warning"]

\* one pass of the for loop body (lines 55-60) for a record whose code is known
warning_entry(warning) ==
  LET code == warning_code_dict[warning.warningStatementCode]
      subtype == IF "subtype" \in DOMAIN warning /\ warning.subtype # ""
                 THEN " (" \o warning.subtype \o ")" ELSE ""
      time == warning.updateTime
      content == Join(" ", warning.contents)
  IN code \o subtype \o " - " \o time \o ": " \o content

\* variant: a record whose code is not in the table is skipped
RECURSIVE warnings_loop_skip(_, _, _)
warnings_loop_skip(details, i, warnings) ==
  IF i > Len(details) THEN Ret(Str(Join("\n\n", warnings)))
  ELSE IF details[i].warningStatementCode \notin DOMAIN warning_code_dict
       THEN warnings_loop_skip(details, i + 1, warnings)
       ELSE warnings_loop_skip(details, i + 1,
                               Append(warnings, warning_entry(details[i])))

\* the for loop of lines 54-60, from record i on, with the list built so far
RECURSIVE warnings_loop(_, _, _)
warnings_loop(details, i, warnings) ==
  IF i > Len(details) THEN Ret(Str(Join("\n\n", warnings)))
  ELSE IF details[i].warningStatementCode \notin DOMAIN warning_code_dict
       THEN Raise("KeyError")
       ELSE warnings_loop(details, i + 1, Append(warnings, warning_entry(details[i])))

format_warnings(data) ==
  IF "details" \notin DOMAIN data \/ Len(data.details) = 0
  THEN Ret(Str("No active warnings"))
  ELSE warnings_loop(data.details, 1, <<>>)

----------------------------------------------------------------------------
(* format_warnings_summary *)

info_get(info, key) == IF key \in DOMAIN info THEN info[key] ELSE "Unknown"

warning_summary_line(item) ==
  info_get(item.info, "name") \o " (" \o item.code \o ") - Action: "
    \o info_get(item.info, "actionCode") \o ", Issued at: "
    \o info_get(item.info, "issueTime")

format_warnings_summary(warnings_data) ==
  IF Len(warnings_data.items) = 0
  THEN Ret(Str("No warning issued."))
  ELSE Ret(Str(Join("\n", [i \in 1..Len(warnings_data.items) |->
                              warning_summary_line(warnings_data.items[i])])))

----------------------------------------------------------------------------
(* the rhrread extractions *)

extract_temperature_data(data) ==
  IF "temperature" \in DOMAIN data
  THEN LET temperatures == data.temperature.data
           record_time == data.temperature.recordTime
           location_temp == [i \in 1..Len(temperatures) |->
                               temperatures[i].place \o ": "
                                 \o ToString(temperatures[i].value) \o "°"
                                 \o temperatures[i].unit]
       IN Ret(Str("Temperature readings (recorded at " \o record_time \o "):"
                    \o Join("\n", location_temp)))
  ELSE Raise("UnboundLocalError")

extract_rainfall_data(data) ==
  IF "rainfall" \in DOMAIN data
  THEN LET rainfall_data == data.rainfall.data
           maintenance(rain) ==
             IF "main" \in DOMAIN rain /\ rain.main = "TRUE"
             THEN " Under maintenance" ELSE "False"
           rain_location == [i \in 1..Len(rainfall_data) |->
                               rainfall_data[i].place \o ": "
                                 \o ToString(rainfall_data[i].max)
                                 \o rainfall_data[i].unit
                                 \o " maintenance:" \o maintenance(rainfall_data[i])]
       IN Ret(Str("Rainfall data:\n " \o Join("", rain_location)))
  ELSE Raise("UnboundLocalError")

extract_humidity_data(data) ==
  IF \/ "humidity" \notin DOMAIN data
     \/ "data" \notin DOMAIN data.humidity
     \/ Len(data.humidity.data) = 0
  THEN Ret(Str("Humidty data not available"))
  ELSE LET humidity_info == data.humidity.data[1]
           record_time == data.humidity.recordTime
       IN Ret(Str("Humidity: " \o ToString(humidity_info.value) \o " "
                    \o humidity_info.unit \o " at " \o humidity_info.place
                    \o " Recorded at: " \o record_time))

\* the default of data.get('uvindex', ...) when the key is absent
UvDefault == "No uv index"

extract_uv_index(data) ==
  LET present == "uvindex" \in DOMAIN data
      \* len(uvinfo): the number of keys of the object, or the length of
      \* the default string
      uvlen == IF present THEN Cardinality(DOMAIN data.uvindex) ELSE Len(UvDefault)
  IN IF uvlen < 1 THEN Ret(Str("No UV index"))
     ELSE IF ~present THEN Raise("TypeError")    \* "No uv index"['data']
     ELSE IF "data" \notin DOMAIN data.uvindex THEN Raise("KeyError")
     ELSE IF Len(data.uvindex.data) = 0 THEN Raise("IndexError")
     ELSE IF "recordDesc" \notin DOMAIN data.uvindex THEN Raise("KeyError")
     ELSE LET uv_data == data.uvindex.data[1]
              record_desc == data.uvindex.recordDesc
          IN Ret(Str("UV Index: " \o ToString(uv_data.value) \o " ("
                       \o uv_data.desc \o ") at " \o uv_data.place
                       \o " \n        Record description: " \o record_desc))

current_weather_process(data) ==
  LET t == extract_temperature_data(data)
      r == extract_rainfall_data(data)
      h == extract_humidity_data(data)
      u == extract_uv_index(data)
  IN IF ~IsRet(t) THEN t
     ELSE IF ~IsRet(r) THEN r
     ELSE IF ~IsRet(h) THEN h
     ELSE IF ~IsRet(u) THEN u
     ELSE Ret(Str(Join("\n", <<t.v.s, r.v.s, h.v.s, u.v.s>>)))

----------------------------------------------------------------------------
(* formatting_weather *)

flw_get(weather_data, key, default) ==
  IF key \in DOMAIN weather_data THEN weather_data[key] ELSE default

Indent8 == "\n        "

\* the line continuation inside the f-string of lines 137-138 keeps the
\* leading blanks of line 138 in the text
FndContinuation == "            "

fnd_line(day) ==
  day.week \o " (" \o day.forecastDate \o "): " \o day.forecastWeather \o ", "
    \o ToString(day.forecastMintemp.value) \o "-"
    \o ToString(day.forecastMaxtemp.value)
    \o FndContinuation \o day.forecastMaxtemp.unit

swt_line(tips) ==
  (IF "updateTime" \in DOMAIN tips THEN tips.updateTime ELSE "time unknown")
    \o ": "
    \o (IF "desc" \in DOMAIN tips THEN tips.desc ELSE "no description")

formatting_weather(weather_data, dataType) ==
  IF dataType = "flw" THEN
    Ret(Str(Indent8 \o "General Situation: "
              \o flw_get(weather_data, "generalSituation", "Unknown")
          \o Indent8 \o "tcInfo: "
              \o flw_get(weather_data, "tcInfo", "Unkown")
          \o Indent8 \o "fireDangerWarning: "
              \o flw_get(weather_data, "fireDangerWarning", "No fire Danger")
          \o Indent8 \o "forecastPeriod: "
              \o flw_get(weather_data, "forecastPeriod", "Forecast Period not provided")
          \o Indent8 \o "forecastDesc: "
              \o flw_get(weather_data, "forecastDesc", "No forecast description available")
          \o Indent8 \o "outlook: "
              \o flw_get(weather_data, "outlook", "No outlook available")
          \o Indent8 \o "updateTime: "
              \o flw_get(weather_data, "updateTime", "No update time available")
          \o Indent8))
  ELSE IF dataType = "fnd" THEN
    IF "weatherForecast" \notin DOMAIN weather_data THEN Raise("KeyError")
    ELSE LET weekly_weather_list == weather_data.weatherForecast
         IN Ret(Str(Join("\n", [i \in 1..Len(weekly_weather_list) |->
                                  fnd_line(weekly_weather_list[i])])))
  ELSE IF dataType = "rhrread" THEN current_weather_process(weather_data)
  ELSE IF dataType = "warnsum" THEN format_warnings_summary(weather_data)
  ELSE IF dataType = "warningInfo" THEN format_warnings(weather_data)
  ELSE IF dataType = "swt" THEN
    IF "swt" \notin DOMAIN weather_data THEN Raise("KeyError")
    ELSE LET special_weather_tips_list == weather_data.swt
         IN Ret(Str(Join("\n", [i \in 1..Len(special_weather_tips_list) |->
                                  swt_line(special_weather_tips_list[i])])))
  ELSE Ret(PyNone)

----------------------------------------------------------------------------
(* The documents the upstream may answer with, per report tag *)

Part(key, i, variants) == IF i = 0 THEN EmptyObj ELSE (key :> variants[i])

DetailRecords ==
  {[warningStatementCode |-> "WRAIN", updateTime |-> "t1",
    contents |-> <<"Red rain warning in force.">>],
   [warningStatementCode |-> "WRAIN", subtype |-> "WRAINR", updateTime |-> "t1",
    contents |-> <<"Red rain warning in force.">>],
   [warningStatementCode |-> "WTS", updateTime |-> "t2",
    contents |-> <<"Thunderstorms expected.", "Stay indoors.">>],
   [warningStatementCode |-> "WXYZ", updateTime |-> "t3",
    contents |-> <<"Unlisted statement.">>]}

WarningInfoDocs ==
  {EmptyObj} \cup {[details |-> ds] : ds \in SeqsUpTo(DetailRecords, MaxDetails)}

DayRecords ==
  {[week |-> "Monday", forecastDate |-> "20240101", forecastWeather |-> "Sunny",
    forecastMintemp |-> [value |-> 15],
    forecastMaxtemp |-> [value |-> 22, unit |-> "C"]],
   [week |-> "Tuesday", forecastDate |-> "20240102", forecastWeather |-> "Rain",
    forecastMintemp |-> [value |-> 14],
    forecastMaxtemp |-> [value |-> 19, unit |-> "C"]]}

FndDocs ==
  {EmptyObj} \cup {[weatherForecast |-> ds] : ds \in SeqsUpTo(DayRecords, MaxDays)}

TipRecords ==
  {[updateTime |-> "t1", desc |-> "Hot night."],
   [desc |-> "Strong wind."],
   EmptyObj}

SwtDocs == {EmptyObj} \cup {[swt |-> ts] : ts \in SeqsUpTo(TipRecords, MaxTips)}

WarnItems ==
  {[code |-> "TC1", info |-> [name |-> "Tropical Cyclone Warning",
                              actionCode |-> "ISSUE",
                              issueTime |-> "2024-01-01T00:00"]],
   [code |-> "WHOT", info |-> [name |-> "Very Hot Weather Warning"]]}

WarnsumDocs ==
  {[items |-> ws] : ws \in {w \in SeqsUpTo(WarnItems, MaxWarnings) :
                              \A i, j \in 1..Len(w) : w[i].code = w[j].code => i = j}}

FlwFull ==
  [generalSituation |-> "A ridge of high pressure.", tcInfo |-> "",
   fireDangerWarning |-> "", forecastPeriod |-> "Tonight and tomorrow",
   forecastDesc |-> "Fine.", outlook |-> "Hot.", updateTime |-> "t1"]

FlwDocs ==
  {[key \in keys |-> FlwFull[key]] :
     keys \in SUBSET {"generalSituation", "outlook", "updateTime"}} \cup {FlwFull}

TemperatureVariants ==
  <<[data |-> <<[place |-> "Sha Tin", value |-> 21, unit |-> "C"]>>,
     recordTime |-> "t1"],
    [data |-> <<[place |-> "Sha Tin", value |-> 21, unit |-> "C"],
                [place |-> "Sai Kung", value |-> 22, unit |-> "C"]>>,
     recordTime |-> "t1"]>>

RainfallVariants ==
  <<[data |-> <<[place |-> "Sha Tin", max |-> 0, unit |-> "mm", main |-> "TRUE"]>>],
    [data |-> <<[place |-> "Sha Tin", max |-> 3, unit |-> "mm", main |-> "FALSE"],
                [place |-> "Sai Kung", max |-> 1, unit |-> "mm"]>>]>>

HumidityVariants ==
  <<[data |-> << >>, recordTime |-> "t1"],
    [data |-> <<[place |-> "Hong Kong Observatory", value |-> 80, unit |-> "percent"]>>,
     recordTime |-> "t1"]>>

UvindexVariants ==
  <<EmptyObj,
    [data |-> <<[place |-> "King's Park", value |-> 3, desc |-> "moderate"]>>,
     recordDesc |-> "During the past hour"]>>

RhrreadDocs ==
  {Part("temperature", t, TemperatureVariants) @@ Part("rainfall", r, RainfallVariants)
     @@ Part("humidity", h, HumidityVariants) @@ Part("uvindex", u, UvindexVariants) :
     t \in 0..2, r \in 0..2, h \in 0..2, u \in 0..2}

DocsFor(tag) ==
  CASE tag = "flw" -> FlwDocs
    [] tag = "fnd" -> FndDocs
    [] tag = "rhrread" -> RhrreadDocs
    [] tag = "warnsum" -> WarnsumDocs
    [] tag = "warningInfo" -> WarningInfoDocs
    [] tag = "swt" -> SwtDocs
    [] OTHER -> {EmptyObj}

----------------------------------------------------------------------------
(* get_weather and make_hko_weather_request *)

VARIABLES
  pc,         \* position of the current get_weather invocation
  dataType,   \* its arguments
  lang,
  url,        \* the URL it built
  client,     \* the httpx.AsyncClient scope: "none", "open", "closed"
  requests,   \* client.get calls issued by the current invocation
  sent,       \* URL of the last request issued
  outcome,    \* how the awaited request ended
  ret,        \* value the try block of the fetcher decided to return
  data,       \* what make_hko_weather_request returned to get_weather
  fmt,        \* the formatting_weather call made by the current invocation
  result,     \* outcome of the current get_weather invocation
  calls,      \* invocations started so far
  fn,         \* renderer applied on its own, its argument and its outcome
  arg,
  out

vars == <<pc, dataType, lang, url, client, requests, sent, outcome, ret, data,
          fmt, result, calls, fn, arg, out>>

callVars == <<pc, dataType, lang, url, client, requests, sent, outcome, ret,
              data, fmt, result, calls>>

HKO_API_BASE == "https://data.weather.gov.hk/weatherAPI/opendata/weather.php"

dataType_set == {"flw", "fnd", "rhrread", "warnsum", "warningInfo", "swt"}
lang_set == {"en", "tc", "sc"}

\* arguments the host may pass
DataTypeInputs == dataType_set \cup {"xyz", "FLW", ""}
LangInputs == lang_set \cup {"fr", ""}

\* the set reprs are printed in the iteration order of the running process
InvalidMsg ==
  "Invalid dataType or lang. Use dataType in "
    \o "{'flw', 'fnd', 'rhrread', 'warnsum', 'warningInfo', 'swt'}"
    \o " and " \o "{'en', 'tc', 'sc'}"

NoDataMsg == "Data is None"

\* variant: the two membership tests joined by "and"
valid_input_and(dt, lg) == ~(dt \notin dataType_set /\ lg \notin lang_set)

\* variant: only the language is tested
valid_input_lang_only(dt, lg) == lg \in lang_set

\* the negation of the test of line 208
valid_input(dt, lg) == ~(dt \notin dataType_set \/ lg \notin lang_set)

\* the test of line 215
is_none(d) == d.t = "None"

NotCalled == [called |-> FALSE]

Init ==
  /\ pc = "idle"
  /\ dataType = ""
  /\ lang = ""
  /\ url = ""
  /\ client = "none"
  /\ requests = 0
  /\ sent = ""
  /\ outcome = "none"
  /\ ret = PyNone
  /\ data = PyNone
  /\ fmt = NotCalled
  /\ result = NoOutcome
  /\ calls = 0
  /\ fn = ""
  /\ arg = EmptyObj
  /\ out = NoOutcome

\* get_weather is entered: lines 205-212, up to the await of line 213
Call(dt, lg) ==
  /\ pc \in {"idle", "done"}
  /\ calls < MaxCalls
  /\ calls' = calls + 1
  /\ dataType' = dt
  /\ lang' = lg
  /\ requests' = 0
  /\ sent' = ""
  /\ outcome' = "none"
  /\ ret' = PyNone
  /\ data' = PyNone
  /\ fmt' = NotCalled
  /\ IF valid_input(dt, lg)
     THEN /\ url' = HKO_API_BASE \o "?dataType=" \o dt \o "&lang=" \o lg
          /\ result' = NoOutcome
          /\ pc' = "open"
     ELSE /\ url' = ""
          /\ result' = Ret(Str(InvalidMsg))
          /\ pc' = "done"
  /\ UNCHANGED <<client, fn, arg, out>>

\* line 20: the client scope is entered
OpenClient ==
  /\ pc = "open"
  /\ client' = "open"
  /\ pc' = "request"
  /\ UNCHANGED <<dataType, lang, url, requests, sent, outcome, ret, data, fmt,
                 result, calls, fn, arg, out>>

\* line 20: constructing or entering the client fails, outside the try block,
\* and the exception leaves make_hko_weather_request and get_weather
OpenClientFails ==
  /\ pc = "open"
  /\ result' = Raise("ClientOpenError")
  /\ pc' = "done"
  /\ UNCHANGED <<dataType, lang, url, client, requests, sent, outcome, ret,
                 data, fmt, calls, fn, arg, out>>

\* line 22: client.get is issued and awaited
SendRequest ==
  /\ pc = "request"
  /\ requests' = requests + 1
  /\ sent' = url
  /\ pc' = "await"
  /\ UNCHANGED <<dataType, lang, url, client, outcome, ret, data, fmt, result,
                 calls, fn, arg, out>>

\* lines 22-24: a 2xx response whose body parses
\* (a body of JSON null parses to None)
ResponseOk ==
  /\ pc = "await"
  /\ outcome' = "ok"
  /\ \E body \in {Doc(d) : d \in DocsFor(dataType)} \cup {PyNone} : ret' = body
  /\ pc' = "close"
  /\ UNCHANGED <<dataType, lang, url, client, requests, sent, data, fmt,
                 result, calls, fn, arg, out>>

\* what can go wrong inside the try block, other than the timeout
FailureKinds == {"status", "transport", "badjson", "unexpected"}

\* variant: a failed request is issued once more
ResponseError_retry ==
  /\ pc = "await"
  /\ \E kind \in FailureKinds : outcome' = kind
  /\ ret' = PyNone
  /\ pc' = IF requests < 2 THEN "request" ELSE "close"
  /\ UNCHANGED <<dataType, lang, url, client, requests, sent, data, fmt,
                 result, calls, fn, arg, out>>

\* lines 23-33: raise_for_status raises HTTPStatusError, client.get raises a
\* RequestError, response.json() raises on an unparseable body, or anything
\* else derived from Exception is raised; each handler returns None
ResponseError ==
  /\ pc = "await"
  /\ \E kind \in FailureKinds : outcome' = kind
  /\ ret' = PyNone
  /\ pc' = "close"
  /\ UNCHANGED <<dataType, lang, url, client, requests, sent, data, fmt,
                 result, calls, fn, arg, out>>

\* line 22 with timeout=30.0: no response arrives, httpx raises a
\* TimeoutException, a RequestError, handled by lines 28-30
Timeout ==
  /\ pc = "await"
  /\ outcome' = "timeout"
  /\ ret' = PyNone
  /\ pc' = "close"
  /\ UNCHANGED <<dataType, lang, url, client, requests, sent, data, fmt,
                 result, calls, fn, arg, out>>

\* the client scope of line 20 is left and the fetcher returns
CloseClient ==
  /\ pc = "close"
  /\ client' = "closed"
  /\ data' = ret
  /\ pc' = "fetched"
  /\ UNCHANGED <<dataType, lang, url, requests, sent, outcome, ret, fmt,
                 result, calls, fn, arg, out>>

\* leaving the client scope raises: the exception replaces the return value
\* and leaves make_hko_weather_request and get_weather
CloseClientFails ==
  /\ pc = "close"
  /\ client' = "closed"
  /\ result' = Raise("ClientCloseError")
  /\ pc' = "done"
  /\ UNCHANGED <<dataType, lang, url, requests, sent, outcome, ret, data, fmt,
                 calls, fn, arg, out>>

\* Python truthiness of the fetcher's result
truthy(d) == ~is_none(d) /\ d.v # EmptyObj /\ d.v # [items |-> << >>]

\* variant: the test of line 215 is "if not data"
Finish_falsy ==
  /\ pc = "fetched"
  /\ IF ~truthy(data)
     THEN /\ result' = Ret(Str(NoDataMsg))
          /\ fmt' = NotCalled
     ELSE LET o == formatting_weather(data.v, dataType)
          IN /\ fmt' = [called |-> TRUE, doc |-> data.v, tag |-> dataType, out |-> o]
             /\ result' = o
  /\ pc' = "done"
  /\ UNCHANGED <<dataType, lang, url, client, requests, sent, outcome, ret,
                 data, calls, fn, arg, out>>

\* lines 215-218
Finish ==
  /\ pc = "fetched"
  /\ IF is_none(data)
     THEN /\ result' = Ret(Str(NoDataMsg))
          /\ fmt' = NotCalled
     ELSE LET o == formatting_weather(data.v, dataType)
          IN /\ fmt' = [called |-> TRUE, doc |-> data.v, tag |-> dataType, out |-> o]
             /\ result' = o
  /\ pc' = "done"
  /\ UNCHANGED <<dataType, lang, url, client, requests, sent, outcome, ret,
                 data, calls, fn, arg, out>>

Next ==
  \/ \E dt \in DataTypeInputs, lg \in LangInputs : Call(dt, lg)
  \/ OpenClient
  \/ OpenClientFails
  \/ SendRequest
  \/ ResponseOk
  \/ ResponseError
  \/ Timeout
  \/ CloseClient
  \/ CloseClientFails
  \/ Finish

Spec == Init /\ [][Next]_vars

\* the event loop resumes a started invocation, and the upstream answers or
\* the timeout fires
LiveSpec ==
  /\ Spec
  /\ WF_vars(OpenClient \/ OpenClientFails)
  /\ WF_vars(SendRequest)
  /\ WF_vars(ResponseOk \/ ResponseError \/ Timeout)
  /\ WF_vars(CloseClient \/ CloseClientFails)
  /\ WF_vars(Finish)

----------------------------------------------------------------------------
(* The renderers applied on their own *)

Apply_format_warnings ==
  \E d \in WarningInfoDocs :
    /\ fn' = "format_warnings"
    /\ arg' = d
    /\ out' = format_warnings(d)
    /\ UNCHANGED callVars

Apply_extract_uv_index ==
  \E d \in RhrreadDocs :
    /\ fn' = "extract_uv_index"
    /\ arg' = d
    /\ out' = extract_uv_index(d)
    /\ UNCHANGED callVars

Apply_fnd ==
  \E d \in FndDocs :
    /\ fn' = "fnd"
    /\ arg' = d
    /\ out' = formatting_weather(d, "fnd")
    /\ UNCHANGED callVars

FmtNext ==
  \/ Apply_format_warnings
  \/ Apply_extract_uv_index
  \/ Apply_fnd

FmtSpec == Init /\ [][FmtNext]_vars

----------------------------------------------------------------------------
(* Properties *)

ValidArgs ==
  /\ dataType \in {"flw", "fnd", "rhrread", "warnsum", "warningInfo", "swt"}
  /\ lang \in {"en", "tc", "sc"}

Started == calls > 0

FetcherRaised == result \in {Raise("ClientOpenError"), Raise("ClientCloseError")}

\* make_hko_weather_request has returned a value to get_weather
FetcherReturned ==
  \/ pc = "fetched"
  \/ pc = "done" /\ ValidArgs /\ ~FetcherRaised

\* C1: a call whose dataType or lang is outside the recognized sets returns
\* the fixed error string, does not raise, and issues no network request at
\* any point of the call.
C1_InvalidInputNoRequest ==
  (Started /\ ~ValidArgs) =>
    /\ pc = "done"
    /\ result = Ret(Str(InvalidMsg))
    /\ requests = 0
    /\ sent = ""
    /\ outcome = "none"

C1_Witness ==
  /\ pc = "done"
  /\ dataType = "xyz"
  /\ lang = "en"
  /\ result = Ret(Str(InvalidMsg))
  /\ requests = 0

\* C2: make_hko_weather_request never raises to its caller, whatever the
\* outcome of the outbound request and also when opening or closing the
\* client scope fails; it returns None for every failure and a parsed
\* document only after a 2xx response.
C2_FetcherNeverRaises ==
  /\ ~FetcherRaised
  /\ FetcherReturned =>
       /\ outcome # "ok" => data = PyNone
       /\ data # PyNone => outcome = "ok"

\* C3 (as stated): every call with valid arguments has performed exactly one
\* outbound request when it completes.
C3_ExactlyOneRequest ==
  (pc = "done" /\ ValidArgs) => requests = 1

\* C3 (amended): a call with valid arguments never issues more than one
\* request; it has issued exactly one, to the URL it built, from the moment
\* the request is awaited until it completes, whatever the request's outcome,
\* and none only when opening the client scope failed; a call that formats a
\* document has issued its own request for it.
C3_OneRequestOnceOpened ==
  /\ requests <= 1
  /\ pc \in {"await", "close", "fetched"} => requests = 1 /\ sent = url
  /\ (pc = "done" /\ ValidArgs) =>
       IF result = Raise("ClientOpenError")
       THEN requests = 0
       ELSE requests = 1 /\ sent = url
  /\ fmt.called => requests = 1 /\ outcome = "ok"

C3_Witness ==
  /\ pc = "done"
  /\ calls = 2
  /\ ValidArgs
  /\ outcome = "status"
  /\ requests = 1
  /\ result = Ret(Str(NoDataMsg))

\* C4: with valid arguments, a None result of the fetcher gives "Data is
\* None" and the formatter is not invoked; any document, an empty object
\* included, is passed to the formatter with the caller's dataType and the
\* formatter's outcome is the call's outcome, unmodified.
C4_NoneOrFormatted ==
  (pc = "done" /\ FetcherReturned) =>
    IF data = PyNone
    THEN /\ result = Ret(Str(NoDataMsg))
         /\ ~fmt.called
    ELSE /\ fmt.called
         /\ fmt.doc = data.v
         /\ fmt.tag = dataType
         /\ result = fmt.out
         /\ result = formatting_weather(data.v, dataType)

C4_Witness ==
  /\ pc = "done"
  /\ dataType = "flw"
  /\ data = Doc(EmptyObj)
  /\ fmt.called
  /\ IsRet(result)
  /\ result.v # Str(NoDataMsg)

\* a document of the shape the data model gives for the tag
WellFormed(tag, d) ==
  CASE tag = "fnd" -> "weatherForecast" \in DOMAIN d
    [] tag = "swt" -> "swt" \in DOMAIN d
    [] tag = "warningInfo" ->
         /\ "details" \in DOMAIN d
         /\ \A i \in 1..Len(d.details) :
              d.details[i].warningStatementCode \in DOMAIN warning_code_dict
    [] OTHER -> TRUE

\* C5: for every valid tag and language, a well-formed document of the tag's
\* shape (optional rhrread sub-objects absent, empty weatherForecast or swt,
\* empty warnsum mapping included) makes get_weather return a non-empty
\* string that is neither the invalid-input text nor "Data is None".
C5_WellFormedRenders ==
  (pc = "done" /\ FetcherReturned /\ data # PyNone /\ WellFormed(dataType, data.v)) =>
    /\ IsRet(result)
    /\ IsStr(result.v)
    /\ result.v.s \notin {"", InvalidMsg, NoDataMsg}

KnownCodes ==
  {"WFIRE", "WFROST", "WHOT", "WCOLD", "WMSGNL", "WTCPRE8", "WRAIN", "WFNTSA",
   "WL", "WTCSGNL", "WTMW", "WTS"}

\* {name}{subtype} - {updateTime}: {content}
ExpectedWarning(w) ==
  warning_code_dict[w.warningStatementCode]
    \o (IF "subtype" \in DOMAIN w THEN " (" \o w.subtype \o ")" ELSE "")
    \o " - " \o w.updateTime \o ": " \o Join(" ", w.contents)

\* C6: for a non-empty details sequence, format_warnings fails with a lookup
\* error when any record's code is outside the 12 known codes, whatever its
\* position, and otherwise returns one rendered entry per record, in the
\* document's order, joined by a blank line.
C6_WarningsStrict ==
  (fn = "format_warnings" /\ "details" \in DOMAIN arg /\ Len(arg.details) > 0) =>
    IF \E i \in 1..Len(arg.details) :
         arg.details[i].warningStatementCode \notin KnownCodes
    THEN out = Raise("KeyError")
    ELSE out = Ret(Str(Join("\n\n", [i \in 1..Len(arg.details) |->
                                       ExpectedWarning(arg.details[i])])))

C6_Witness ==
  /\ fn = "format_warnings"
  /\ "details" \in DOMAIN arg
  /\ Len(arg.details) = 2
  /\ arg.details[1].warningStatementCode = "WRAIN"
  /\ arg.details[2].warningStatementCode = "WXYZ"
  /\ out = Raise("KeyError")

\* C7: extract_uv_index returns "No UV index", without failing, when the
\* uvindex key is absent, and otherwise renders the first reading of
\* uvindex.data.
C7_UvAbsentIsNoIndex ==
  fn = "extract_uv_index" =>
    /\ "uvindex" \notin DOMAIN arg => out = Ret(Str("No UV index"))
    /\ ("uvindex" \in DOMAIN arg /\ "data" \in DOMAIN arg.uvindex) =>
         out = Ret(Str("UV Index: " \o ToString(arg.uvindex.data[1].value)
                         \o " (" \o arg.uvindex.data[1].desc \o ") at "
                         \o arg.uvindex.data[1].place
                         \o " \n        Record description: "
                         \o arg.uvindex.recordDesc))

\* {week} ({forecastDate}): {forecastWeather}, {minTemp}-{maxTemp}{unit}
ExpectedFndLine(day) ==
  day.week \o " (" \o day.forecastDate \o "): " \o day.forecastWeather \o ", "
    \o ToString(day.forecastMintemp.value) \o "-"
    \o ToString(day.forecastMaxtemp.value) \o day.forecastMaxtemp.unit

\* C8: the fnd renderer returns one line per day-record, in the document's
\* order, joined by newline, each line being
\* {week} ({forecastDate}): {forecastWeather}, {minTemp}-{maxTemp}{unit}
\* with nothing between the maximum temperature and its unit; the single day
\* Monday/20240101/Sunny/15/22/C renders as "Monday (20240101): Sunny, 15-22C".
C8_FndLines ==
  (fn = "fnd" /\ "weatherForecast" \in DOMAIN arg) =>
    /\ out = Ret(Str(Join("\n", [i \in 1..Len(arg.weatherForecast) |->
                                   ExpectedFndLine(arg.weatherForecast[i])])))
    /\ (Len(arg.weatherForecast) = 1 /\ arg.weatherForecast[1].week = "Monday") =>
         out = Ret(Str("Monday (20240101): Sunny, 15-22C"))

\* C9: every started get_weather invocation eventually completes; when the
\* timeout fires the call returns "Data is None"; and whenever an invocation
\* has completed, on any path, the client scope it opened is closed, so none
\* is carried over to the next invocation.
C9_CompletesAndCloses ==
  /\ [](pc \in {"idle", "done"} => client # "open")
  /\ []((pc = "done" /\ outcome = "timeout") => result = Ret(Str(NoDataMsg)))
  /\ (pc \notin {"idle", "done"}) ~> (pc = "done")

\* C10: from get_weather the formatter is only ever invoked with one of the
\* six tags it handles, and a get_weather call that returns normally returns
\* a string, never an absent value.
C10_FormatterTagHandled ==
  /\ fmt.called => fmt.tag \in {"flw", "fnd", "rhrread", "warnsum", "warningInfo", "swt"}
  /\ (pc = "done" /\ IsRet(result)) => IsStr(result.v)

C10_Witness ==
  /\ pc = "done"
  /\ fmt.called
  /\ fmt.tag = "swt"
  /\ IsRet(result)
  /\ IsStr(result.v)

====
